---- MODULE Spec2Model ----
(***************************************************************************)
(* Model of udsoncan/connections.py: BaseConnection, SocketConnection and  *)
(* IsoTPConnection.  One connection object, its background receive thread  *)
(* (rxthread_task), its queue.Queue (rxqueue) and a small set of caller    *)
(* threads that invoke open / close / send / wait_frame / empty_rxqueue.   *)
(* open, close and send are one step each; the blocking calls (wait_frame,  *)
(* empty_rxqueue) and the receive loop are split at their blocking points.   *)
(***************************************************************************)
EXTENDS Integers, Sequences, FiniteSets

\* ------------------------------------------------------------------ bounds
\* Total number of data chunks the transport hands to recv() in one run.
MaxRecv == 2
\* Total number of transport send calls in one run.
MaxSend == 1

\* Caller threads; each may call any operation of the connection.
Callers == {"c1", "c2"}
\* The timeout arguments of wait_frame, in clock ticks.
Timeouts == {0, 1}
Variants == {"socket", "isotp"}
\* The bytes the transport delivers: its n-th chunk, and the empty byte
\* string that recv() of a stream socket returns once the peer has closed.
Chunk(n) == <<80, n>>
EmptyChunk == << >>
\* Potential instances of the background task.
LoopIds == {1, 2}

\* Python values that reach the code: None and bytes objects.
None == [type |-> "NoneType"]
Bytes(b) == [type |-> "bytes", val |-> b]

VARIABLES
    variant,        \* which class the connection is an instance of
    opened,         \* self.opened
    exit_requested, \* self.exit_requested
    rxqueue,        \* self.rxqueue : sequence of [seq, data]
    started,        \* self.rxthread was started (threading.Thread._started)
    loop,           \* position of each instance of rxthread_task
    tp,             \* the transport handle (self.sock / self.tpsock)
    tpsent,         \* payloads handed to the transport's send, in order
    pc,             \* position of each caller thread
    exception,      \* the exception argument of a wait_frame in progress
    remaining,      \* ticks left before the deadline of a wait_frame in progress
    ret,            \* outcome of the call that returned in the last step, NoResult if none did
    sawFrame,       \* history: the queue held a frame during the wait_frame in progress
    received,       \* history: chunks recv() returned, in order
    delivered,      \* history: queue entries wait_frame returned, in order
    discarded,      \* history: queue entries empty_rxqueue removed
    closeReturned,  \* history: a close() of an opened connection has returned
    recvAfterClose  \* history: a recv() call was begun after a close() returned

vars == << variant, opened, exit_requested, rxqueue, started, loop, tp, tpsent,
           pc, exception, remaining, ret, sawFrame, received, delivered,
           discarded, closeReturned, recvAfterClose >>

connVars == << opened, exit_requested, started >>
histVars == << received, delivered, discarded, closeReturned, recvAfterClose >>
waitVars == << exception, remaining, sawFrame >>
callVars == << pc, waitVars, ret >>

NoResult == [op |-> "none", why |-> "none", out |-> "none", val |-> None]
Returned(op, why, v) == [op |-> op, why |-> why, out |-> "returned", val |-> v]
Raised(op, why, e) == [op |-> op, why |-> why, out |-> "raised", val |-> [type |-> e]]

\* ------------------------------------------------------------- queue.Queue
\* A queue that hands out the newest entry first (queue.LifoQueue).
QueuePut_Lifo(q, e) == <<e>> \o q

QueuePut(q, e) == Append(q, e)
QueueEmpty(q) == q = << >>
QueueHead(q) == Head(q)
QueueRest(q) == Tail(q)

\* ----------------------------------------------------------------- __init__
Init ==
    /\ variant \in Variants
    /\ opened = FALSE
    /\ exit_requested = FALSE
    /\ rxqueue = << >>
    /\ started = FALSE
    /\ loop = [l \in LoopIds |-> "unstarted"]
    /\ tp = [bound |-> FALSE, closed |-> FALSE, eof |-> FALSE]
    /\ tpsent = << >>
    /\ pc = [c \in Callers |-> "idle"]
    /\ exception = [c \in Callers |-> FALSE]
    /\ remaining = [c \in Callers |-> 0]
    /\ ret = NoResult
    /\ sawFrame = [c \in Callers |-> FALSE]
    /\ received = << >>
    /\ delivered = << >>
    /\ discarded = {}
    /\ closeReturned = FALSE
    /\ recvAfterClose = FALSE

\* --------------------------------------------------------------------- open
\* A thread object that could be started again.
ThreadCanStart_Always == TRUE

\* threading.Thread.start(): a thread object can be started only once.
ThreadCanStart == ~started

FreeLoop == CHOOSE l \in LoopIds : loop[l] = "unstarted"

\* The part of open() after the transport is bound: exit_requested = False,
\* rxthread.start(), opened = True.  start() raises RuntimeError when the thread
\* cannot be started, and the statements after it are not executed.
OpenTail(c) ==
    /\ exit_requested' = FALSE
    /\ IF ThreadCanStart /\ (\E l \in LoopIds : loop[l] = "unstarted")
       THEN /\ started' = TRUE
            /\ loop' = [loop EXCEPT ![FreeLoop] = "check"]
            /\ opened' = TRUE
            /\ ret' = Returned("open", "ok", None)
       ELSE /\ ret' = Raised("open", "start", "RuntimeError")
            /\ UNCHANGED << started, loop, opened >>

\* SocketConnection.open
OpenSocket(c) ==
    /\ variant = "socket"
    /\ pc[c] = "idle"
    /\ OpenTail(c)
    /\ UNCHANGED << variant, rxqueue, tp, tpsent, pc, waitVars, histVars >>

\* IsoTPConnection.open: tpsock.bind(...) comes first
OpenIsoTP(c) ==
    /\ variant = "isotp"
    /\ pc[c] = "idle"
    /\ tp' = [tp EXCEPT !.bound = TRUE]
    /\ OpenTail(c)
    /\ UNCHANGED << variant, rxqueue, tpsent, pc, waitVars, histVars >>

\* IsoTPConnection.open when tpsock.bind raises: nothing after it is executed
OpenIsoTPBindFails(c) ==
    /\ variant = "isotp"
    /\ pc[c] = "idle"
    /\ ret' = Raised("open", "bind", "TransportError")
    /\ UNCHANGED << variant, connVars, rxqueue, loop, tp, tpsent, pc, waitVars,
                    histVars >>

\* -------------------------------------------------------------------- close
\* What close() does to the transport handle: IsoTPConnection closes tpsock,
\* SocketConnection leaves sock alone.
CloseTransport(t) ==
    IF variant = "isotp" THEN [t EXCEPT !.bound = FALSE, !.closed = TRUE] ELSE t

\* close: exit_requested = True, (tpsock.close()), opened = False
Close(c) ==
    /\ pc[c] = "idle"
    /\ exit_requested' = TRUE
    /\ tp' = CloseTransport(tp)
    /\ opened' = FALSE
    /\ ret' = Returned("close", "ok", None)
    /\ closeReturned' = (closeReturned \/ opened)
    /\ UNCHANGED << variant, started, rxqueue, loop, tpsent, pc, waitVars,
                    received, delivered, discarded, recvAfterClose >>

\* ------------------------------------------------------------ is_open
is_open == IF variant = "socket" THEN opened ELSE tp.bound

\* --------------------------------------------------------------------- send
\* What the caller passes to send: a Request, a Response or a bytes payload.
SendObjects ==
    { [kind |-> k, payload |-> <<16, 3>>] : k \in {"Request", "Response"} }
        \cup { [kind |-> "bytes", val |-> <<16, 3>>] }

\* BaseConnection.send, lines 23-26
PayloadOf(obj) == IF obj.kind \in {"Request", "Response"} THEN obj.payload ELSE obj.val

\* A send that calls the transport a second time when the first call failed.
Send_Retry(c, obj) ==
    /\ pc[c] = "idle"
    /\ Len(tpsent) < MaxSend
    /\ \/ /\ tpsent' = Append(tpsent, PayloadOf(obj))
          /\ ret' = Returned("send", "ok", None)
       \/ /\ tpsent' = Append(Append(tpsent, PayloadOf(obj)), PayloadOf(obj))
          /\ ret' = Raised("send", "transport", "TransportError")
    /\ UNCHANGED << variant, connVars, rxqueue, loop, tp, pc, waitVars, histVars >>

\* BaseConnection.send -> specific_send -> sock.send / tpsock.send
Send(c, obj) ==
    /\ pc[c] = "idle"
    /\ Len(tpsent) < MaxSend
    /\ tpsent' = Append(tpsent, PayloadOf(obj))
    /\ \/ ret' = Returned("send", "ok", None)
       \/ ret' = Raised("send", "transport", "TransportError")
    /\ UNCHANGED << variant, connVars, rxqueue, loop, tp, pc, waitVars, histVars >>

\* ---------------------------------------------------------------- wait_frame
\* wait_frame without the not-open test.
WaitFrameCall_NoCheck(c, timeout, exc) ==
    /\ pc[c] = "idle"
    /\ ret' = NoResult
    /\ pc' = [pc EXCEPT ![c] = "wf_get"]
    /\ exception' = [exception EXCEPT ![c] = exc]
    /\ remaining' = [remaining EXCEPT ![c] = timeout]
    /\ sawFrame' = [sawFrame EXCEPT ![c] = ~QueueEmpty(rxqueue)]
    /\ UNCHANGED << variant, connVars, rxqueue, loop, tp, tpsent, histVars >>

\* specific_wait_frame, lines 108-112 / 186-190: the not-open test
WaitFrameCall(c, timeout, exc) ==
    /\ pc[c] = "idle"
    /\ IF ~opened
       THEN /\ ret' = IF exc THEN Raised("wait_frame", "notopen", "RuntimeError")
                           ELSE Returned("wait_frame", "notopen", None)
            /\ UNCHANGED << pc, waitVars >>
       ELSE /\ pc' = [pc EXCEPT ![c] = "wf_get"]
            /\ exception' = [exception EXCEPT ![c] = exc]
            /\ remaining' = [remaining EXCEPT ![c] = timeout]
            /\ sawFrame' = [sawFrame EXCEPT ![c] = ~QueueEmpty(rxqueue)]
            /\ ret' = NoResult
    /\ UNCHANGED << variant, connVars, rxqueue, loop, tp, tpsent, histVars >>

\* rxqueue.get(block=True, timeout=timeout) returns the head of the queue
WaitFrameGet(c) ==
    /\ pc[c] = "wf_get"
    /\ ~QueueEmpty(rxqueue)
    /\ rxqueue' = QueueRest(rxqueue)
    /\ delivered' = Append(delivered, QueueHead(rxqueue))
    /\ ret' = Returned("wait_frame", "frame", QueueHead(rxqueue).data)
    /\ pc' = [pc EXCEPT ![c] = "idle"]
    /\ exception' = [exception EXCEPT ![c] = FALSE]
    /\ remaining' = [remaining EXCEPT ![c] = 0]
    /\ sawFrame' = [sawFrame EXCEPT ![c] = FALSE]
    /\ UNCHANGED << variant, connVars, loop, tp, tpsent, received, discarded,
                    closeReturned, recvAfterClose >>

\* A get that gives up as soon as it finds the queue empty.
GetTimesOut_Early(c) == QueueEmpty(rxqueue)

\* When queue.get gives up: the queue is empty and the deadline has passed.
GetTimesOut(c) == QueueEmpty(rxqueue) /\ remaining[c] = 0

\* rxqueue.get raises queue.Empty; lines 119-125
WaitFrameTimeout(c) ==
    /\ pc[c] = "wf_get"
    /\ GetTimesOut(c)
    /\ ret' = IF exception[c] THEN Raised("wait_frame", "timeout", "TimeoutException")
                            ELSE Returned("wait_frame", "timeout", None)
    /\ pc' = [pc EXCEPT ![c] = "idle"]
    /\ exception' = [exception EXCEPT ![c] = FALSE]
    /\ sawFrame' = [sawFrame EXCEPT ![c] = FALSE]
    /\ UNCHANGED << variant, connVars, rxqueue, loop, tp, tpsent, remaining, histVars >>

\* Time passes for every blocked rxqueue.get.
Tick ==
    /\ \E c \in Callers : pc[c] = "wf_get" /\ remaining[c] > 0
    /\ ret' = NoResult
    /\ remaining' = [c \in Callers |-> IF remaining[c] > 0 THEN remaining[c] - 1 ELSE 0]
    /\ UNCHANGED << variant, connVars, rxqueue, loop, tp, tpsent, pc, exception,
                    sawFrame, histVars >>

\* ------------------------------------------------------------- empty_rxqueue
\* "if not self.rxqueue.empty()": one get, then return whatever is queued.
EmptyRxqueueTest_Once(c) ==
    /\ pc[c] \in {"idle", "drain_test"}
    /\ IF QueueEmpty(rxqueue) \/ pc[c] = "drain_test"
       THEN /\ pc' = [pc EXCEPT ![c] = "idle"]
            /\ ret' = Returned("empty_rxqueue", "ok", None)
       ELSE /\ pc' = [pc EXCEPT ![c] = "drain_get"]
            /\ ret' = NoResult
    /\ UNCHANGED << variant, connVars, rxqueue, loop, tp, tpsent, waitVars, histVars >>

\* while not self.rxqueue.empty()
EmptyRxqueueTest(c) ==
    /\ pc[c] \in {"idle", "drain_test"}
    /\ IF QueueEmpty(rxqueue)
       THEN /\ pc' = [pc EXCEPT ![c] = "idle"]
            /\ ret' = Returned("empty_rxqueue", "ok", None)
       ELSE /\ pc' = [pc EXCEPT ![c] = "drain_get"]
            /\ ret' = NoResult
    /\ UNCHANGED << variant, connVars, rxqueue, loop, tp, tpsent, waitVars, histVars >>

\* self.rxqueue.get(): blocks while the queue is empty
EmptyRxqueueGet(c) ==
    /\ pc[c] = "drain_get"
    /\ ret' = NoResult
    /\ ~QueueEmpty(rxqueue)
    /\ rxqueue' = QueueRest(rxqueue)
    /\ discarded' = discarded \cup {QueueHead(rxqueue)}
    /\ pc' = [pc EXCEPT ![c] = "drain_test"]
    /\ UNCHANGED << variant, connVars, loop, tp, tpsent, waitVars,
                    received, delivered, closeReturned, recvAfterClose >>

\* ------------------------------------------------------------ rxthread_task
\* The positions from which the loop goes back to its while test: the end of
\* the try body ("check"), the end of "except socket.timeout" ("timedout") and
\* the end of "except Exception" ("failed").
LoopTests == {"check", "timedout", "failed"}

\* "while self.exit_requested": the test of the loop inverted.
LoopCheck_Inverted(l) ==
    /\ loop[l] \in LoopTests
    /\ ret' = NoResult
    /\ loop' = [loop EXCEPT ![l] = IF exit_requested THEN "recv" ELSE "stopped"]
    /\ UNCHANGED << variant, connVars, rxqueue, tp, tpsent, pc, waitVars, histVars >>

\* while not self.exit_requested
LoopCheck(l) ==
    /\ loop[l] \in LoopTests
    /\ ret' = NoResult
    /\ loop' = [loop EXCEPT ![l] = IF exit_requested THEN "stopped" ELSE "recv"]
    /\ recvAfterClose' = (recvAfterClose \/ (~exit_requested /\ closeReturned))
    /\ UNCHANGED << variant, connVars, rxqueue, tp, tpsent, pc, waitVars,
                    received, delivered, discarded, closeReturned >>

\* "if data:" in place of "if data is not None:": an empty chunk is dropped.
PutIfData_Truthy(q, data, n) ==
    IF data # None /\ data.val # << >> THEN QueuePut(q, [seq |-> n, data |-> data]) ELSE q

\* if data is not None: self.rxqueue.put(data)
PutIfData(q, data, n) == IF data # None THEN QueuePut(q, [seq |-> n, data |-> data]) ELSE q

\* The loop body when recv() returned `data`: lines 90-92 / 167-169
LoopReceived(l, data) ==
    /\ loop[l] = "recv"
    /\ ret' = NoResult
    /\ Len(received) < MaxRecv
    /\ received' = Append(received, data)
    /\ rxqueue' = PutIfData(rxqueue, data, Len(received) + 1)
    /\ sawFrame' = [c \in Callers |->
            sawFrame[c] \/ (pc[c] = "wf_get" /\ rxqueue' # << >>)]
    /\ loop' = [loop EXCEPT ![l] = "check"]
    /\ UNCHANGED << variant, connVars, tpsent, pc, exception, remaining,
                    delivered, discarded, closeReturned, recvAfterClose >>

\* data = recv(...) returns the next chunk of the transport
LoopRecvData(l) ==
    /\ ~tp.eof
    /\ LoopReceived(l, Bytes(Chunk(Len(received) + 1)))
    /\ UNCHANGED tp

\* data = recv(...) returns b"": the peer has closed, and recv keeps returning b""
LoopRecvEmpty(l) ==
    /\ LoopReceived(l, Bytes(EmptyChunk))
    /\ tp' = [tp EXCEPT !.eof = TRUE]

\* data = recv(...) returns None
LoopRecvNone(l) ==
    /\ loop[l] = "recv"
    /\ ret' = NoResult
    /\ rxqueue' = PutIfData(rxqueue, None, Len(received) + 1)
    /\ loop' = [loop EXCEPT ![l] = "check"]
    /\ UNCHANGED << variant, connVars, tp, tpsent, pc, waitVars, histVars >>

\* A timeout handled like any other exception: exit_requested = True.
LoopRecvTimeout_Fatal(l) ==
    /\ loop[l] = "recv"
    /\ ret' = NoResult
    /\ exit_requested' = TRUE
    /\ loop' = [loop EXCEPT ![l] = "timedout"]
    /\ UNCHANGED << variant, opened, started, rxqueue, tp, tpsent, pc, waitVars, histVars >>

\* except socket.timeout: pass
LoopRecvTimeout(l) ==
    /\ loop[l] = "recv"
    /\ ret' = NoResult
    /\ loop' = [loop EXCEPT ![l] = "timedout"]
    /\ UNCHANGED << variant, connVars, rxqueue, tp, tpsent, pc, waitVars, histVars >>

\* except Exception: self.exit_requested = True
LoopRecvError(l) ==
    /\ loop[l] = "recv"
    /\ ret' = NoResult
    /\ exit_requested' = TRUE
    /\ loop' = [loop EXCEPT ![l] = "failed"]
    /\ UNCHANGED << variant, opened, started, rxqueue, tp, tpsent, pc, waitVars, histVars >>

\* ------------------------------------------------------------ specification
CallerStep(c) ==
    \/ OpenSocket(c)
    \/ OpenIsoTP(c)
    \/ OpenIsoTPBindFails(c)
    \/ Close(c)
    \/ \E obj \in SendObjects : Send(c, obj)
    \/ \E t \in Timeouts, e \in BOOLEAN : WaitFrameCall(c, t, e)
    \/ WaitFrameGet(c)
    \/ WaitFrameTimeout(c)
    \/ EmptyRxqueueTest(c)
    \/ EmptyRxqueueGet(c)

LoopStep(l) ==
    \/ LoopCheck(l)
    \/ LoopRecvData(l)
    \/ LoopRecvEmpty(l)
    \/ LoopRecvNone(l)
    \/ LoopRecvTimeout(l)
    \/ LoopRecvError(l)

Next ==
    \/ \E c \in Callers : CallerStep(c)
    \/ \E l \in LoopIds : LoopStep(l)
    \/ Tick

Spec == Init /\ [][Next]_vars

\* ================================================================= claims
SeqSet(q) == { q[i] : i \in 1..Len(q) }
Entries == { [seq |-> i, data |-> received[i]] : i \in 1..Len(received) }
Running == { l \in LoopIds : loop[l] \in LoopTests \cup {"recv"} }
EverStarted == { l \in LoopIds : loop[l] # "unstarted" }

\* C1 (FIFO delivery): as long as nothing was drained, the i-th frame returned by
\* wait_frame is the i-th chunk the transport's recv returned, for both variants.
C1_Fifo ==
    discarded = {} =>
        /\ Len(delivered) <= Len(received)
        /\ \A i \in 1..Len(delivered) : delivered[i].data = received[i]

\* Two different chunks were received and returned by wait_frame, nothing drained.
C1_Witness ==
    /\ discarded = {}
    /\ Len(delivered) = 2
    /\ delivered[1].data = Bytes(Chunk(1))
    /\ delivered[2].data # delivered[1].data

\* C2 (exactly-once delivery): every chunk recv returned is in exactly one of
\* the queue, the frames wait_frame returned and the frames a drain discarded,
\* and in none of them twice, in every interleaving of the caller threads.
C2_ExactlyOnce ==
    /\ Cardinality(SeqSet(rxqueue)) = Len(rxqueue)
    /\ Cardinality(SeqSet(delivered)) = Len(delivered)
    /\ SeqSet(rxqueue) \cap SeqSet(delivered) = {}
    /\ SeqSet(rxqueue) \cap discarded = {}
    /\ SeqSet(delivered) \cap discarded = {}
    /\ SeqSet(rxqueue) \cup SeqSet(delivered) \cup discarded = Entries
    /\ Len(received) = Len(rxqueue) + Len(delivered) + Cardinality(discarded)

\* One frame was returned and one discarded while a drain and a wait_frame of
\* two threads are both in progress.
C2_Witness ==
    /\ Len(delivered) = 1
    /\ Cardinality(discarded) = 1
    /\ \E c, d \in Callers : pc[c] = "drain_test" /\ pc[d] = "wf_get"

\* C3 (not-open rejection of wait_frame): a wait_frame call on a connection
\* that is not opened returns None (exception false) or raises the not-open
\* RuntimeError (exception true), pops nothing and leaves queue and transport alone.
C3_NotOpenWaitFrame ==
    [][\A c \in Callers, t \in Timeouts, e \in BOOLEAN :
        (~opened /\ WaitFrameCall(c, t, e)) =>
            /\ ret' = IF e THEN Raised("wait_frame", "notopen", "RuntimeError")
                           ELSE Returned("wait_frame", "notopen", None)
            /\ pc'[c] = "idle"
            /\ UNCHANGED << rxqueue, delivered, discarded, tp, tpsent, loop >>]_vars

\* A closed connection with a frame still queued rejected a wait_frame.
C3_Witness ==
    /\ ret = Returned("wait_frame", "notopen", None)
    /\ ~opened
    /\ closeReturned
    /\ rxqueue # << >>
    /\ delivered = << >>

\* C4 (not-open rejection of send), as claimed: the transport's send is called
\* only while the connection is opened.
C4_SendOnlyWhenOpen == [][tpsent' # tpsent => opened]_vars

\* The step in which a blocked wait_frame of caller c ends without a frame.
TimeoutStep(c) == pc[c] = "wf_get" /\ pc'[c] = "idle" /\ delivered' = delivered

\* C5 (timeout outcome of wait_frame), as claimed: a timeout is reported only
\* at the deadline and only if the queue held no frame during the whole wait.
C5_Original ==
    [][\A c \in Callers : TimeoutStep(c) => (remaining[c] = 0 /\ ~sawFrame[c])]_vars

\* C5 as amended: a timeout is reported only at the deadline and only if the
\* queue is empty then; it yields None or TimeoutException as the exception
\* argument says, and leaves lifecycle state, queue, transport and loop unchanged.
C5_Timeout ==
    [][\A c \in Callers : TimeoutStep(c) =>
        /\ remaining[c] = 0
        /\ rxqueue = << >>
        /\ ret' = IF exception[c] THEN Raised("wait_frame", "timeout", "TimeoutException")
                                  ELSE Returned("wait_frame", "timeout", None)
        /\ UNCHANGED << opened, exit_requested, started, rxqueue, loop, tp, received >>]_vars

\* A wait_frame timed out with TimeoutException on a connection that is still
\* open with its loop running, so a later frame can still be delivered.
C5_Witness ==
    /\ ret = Raised("wait_frame", "timeout", "TimeoutException")
    /\ opened
    /\ ~exit_requested
    /\ Running # {}
    /\ Len(received) < MaxRecv

\* C6 (close releases the transport), as claimed: when close() has just
\* returned, the connection is not opened, the loop was told to stop and the
\* transport handle is closed.
C6_CloseReleases == ret.op = "close" => (~opened /\ exit_requested /\ tp.closed)

\* C7 (no push after close), as claimed: once a close() of an opened connection
\* has returned, the queue never grows.
C7_NoPushAfterClose == [][closeReturned => Len(rxqueue') <= Len(rxqueue)]_vars

\* C8 (shutdown is eventually observed), as claimed: after close() returned the
\* loop begins at most one more recv call (and then stops).
C8_AtMostOneRecv ==
    [][recvAfterClose => \A l \in LoopIds : ~(loop[l] \in LoopTests /\ loop'[l] = "recv")]_vars

\* C9 (re-open is a fresh lifecycle), as claimed: an open() after open() and
\* close(), when the transport binds, succeeds: the connection is opened, a
\* loop is running and the queue holds no frame of the previous lifecycle.
C9_ReopenFresh ==
    (closeReturned /\ ret.op = "open" /\ ret.why # "bind") =>
        (ret.out = "returned" /\ opened /\ Running # {} /\ rxqueue = << >>)

\* An open() call on a connection that is opened (no close() since its open()).
SecondOpen(c) == opened /\ (OpenSocket(c) \/ OpenIsoTP(c))

\* C10 (double open), as claimed: a second open() without a close() in between
\* starts one more loop next to the first.
C10_Original ==
    [][\A c \in Callers : SecondOpen(c) =>
        Cardinality(EverStarted') = Cardinality(EverStarted) + 1]_vars

\* C10 as amended: a second open() without a close() in between starts no
\* loop: rxthread.start() raises RuntimeError after exit_requested was reset,
\* opened stays true, the loop is untouched and never more than one loop exists.
C10_SecondOpenFails ==
    [][\A c \in Callers : SecondOpen(c) =>
        /\ ret' = Raised("open", "start", "RuntimeError")
        /\ opened' /\ ~exit_requested'
        /\ UNCHANGED << loop, started, rxqueue >>
        /\ Cardinality(EverStarted') <= 1]_vars

\* A second open() failed on an opened, never closed connection whose loop runs.
C10_Witness ==
    /\ ret = Raised("open", "start", "RuntimeError")
    /\ opened
    /\ ~closeReturned
    /\ Cardinality(Running) = 1

\* C11 (fatal receive error is final), as claimed: after a receive error the
\* loop goes to Stopped and does not begin another recv call.
C11_NoRetryAfterError ==
    [][\A l \in LoopIds : loop[l] = "failed" => loop'[l] \in {"failed", "stopped"}]_vars

\* C12 (drain empties the queue): when empty_rxqueue() returns the queue is
\* empty and the return step itself changes nothing, a drain of an empty queue
\* changes nothing at all, each drain step removes exactly the head of the
\* queue and returns nothing to a caller, and a wait_frame that ends while the
\* queue is empty ends in the timeout outcome.
C12_DrainEmpties ==
    [][\A c \in Callers :
        /\ (ret'.op = "empty_rxqueue" /\ pc'[c] = "idle" /\ EmptyRxqueueTest(c)) =>
              /\ rxqueue' = << >>
              /\ UNCHANGED << rxqueue, received, delivered, discarded, connVars,
                              loop, tp, tpsent >>
        /\ (rxqueue = << >> /\ pc[c] = "idle" /\ EmptyRxqueueTest(c)) =>
              /\ pc'[c] = "idle"
              /\ discarded' = discarded
        /\ (pc[c] = "drain_get" /\ pc'[c] # "drain_get") =>
              /\ rxqueue # << >>
              /\ rxqueue' = Tail(rxqueue)
              /\ discarded' = discarded \cup {Head(rxqueue)}
              /\ ret' = NoResult
              /\ UNCHANGED << delivered, received >>
        /\ (pc[c] = "wf_get" /\ pc'[c] = "idle" /\ rxqueue = << >>) =>
              /\ ret'.why = "timeout"
              /\ UNCHANGED << rxqueue, delivered >>]_vars

\* A drain that found two frames queued has returned: both are discarded,
\* none was returned by wait_frame and the queue is empty.
C12_Witness ==
    /\ ret = Returned("empty_rxqueue", "ok", None)
    /\ Cardinality(discarded) = 2
    /\ delivered = << >>
    /\ rxqueue = << >>
    /\ \A c \in Callers : pc[c] = "idle"

\* C13 (drain never blocks), as claimed: empty_rxqueue never reaches its
\* rxqueue.get() while the queue is empty.
C13_DrainNeverBlocks == \A c \in Callers : pc[c] = "drain_get" => rxqueue # << >>

C15_OnlyNonEmptyQueued ==
    \A e \in SeqSet(rxqueue) \cup SeqSet(delivered) : e.data.val # << >>

C17_TimeoutNoOp ==
    [][\A l \in LoopIds :
        /\ (loop[l] = "recv" /\ loop'[l] = "timedout") =>
              UNCHANGED << rxqueue, opened, exit_requested, started, tp, received,
                           delivered, discarded >>
        /\ (loop[l] = "timedout" /\ loop'[l] # "timedout") =>
              loop'[l] = IF exit_requested THEN "stopped" ELSE "recv"]_vars

\* A recv call has timed out on an open connection with a frame queued: the
\* frame is still queued and no shutdown is requested.
C17_Witness ==
    /\ \E l \in LoopIds : loop[l] = "timedout"
    /\ opened
    /\ ~exit_requested
    /\ rxqueue # << >>

\* C18 (no frame is returned after close), as claimed: wait_frame returns a
\* frame only while the connection is opened.
C18_FrameOnlyWhileOpen ==
    [][\A c \in Callers : (pc[c] = "wf_get" /\ delivered' # delivered) => opened]_vars

\* C19 (a failed open() changes nothing), as claimed: an open() that raises
\* because the thread cannot be started leaves opened and exit_requested as
\* they were.
C19_FailedOpenChangesNothing ==
    [][\A c \in Callers :
        ((OpenSocket(c) \/ OpenIsoTP(c)) /\ ret' = Raised("open", "start", "RuntimeError")) =>
            UNCHANGED << opened, exit_requested >>]_vars

\* C20 (is_open agrees with the not-open check), as claimed: for the
\* link-layer variant is_open() is true exactly when opened is true.
C20_IsOpenAgrees == variant = "isotp" => (is_open = opened)

====
